---- MODULE Spec2Model ----
(***************************************************************************)
(* Model of tools/trace_replay_parser.py: the offline replay parser that   *)
(* reads every *.log file of a trace session directory, merges the events  *)
(* by (mono_ms, frame, file) and prints a summary report.                   *)
(*                                                                         *)
(* Text is modelled as a sequence of one-character strings, so that the    *)
(* regular expression, int(), str() and string comparison are computed on  *)
(* characters as the Python code computes them.                            *)
(***************************************************************************)
EXTENDS Integers, Sequences, FiniteSets, TLC

VARIABLES
    \* ---- the run of main() ----
    path_kind,    \* what args.trace_dir names: "missing", "file" or "dir"
    dir,          \* the directory when the run starts: entry name -> entry
    deleted,      \* names of entries removed from the directory since then
    pc,           \* position of main()
    log_files,    \* main's log_files
    idx,          \* position of the for loop over log_files (1-based)
    events,       \* main's events
    stdout,       \* lines printed to standard output, in order
    stderr,       \* lines printed to standard error, in order
    exit_code,    \* the process's exit status, -1 while it runs
    run,          \* number of the run of the tool on this directory
    prev_stdout,  \* standard output of the previous run (empty in run 1)
    \* ---- one application of the line parser ----
    p_parts,      \* the pieces an input line is put together from
    p_line,       \* the input line
    p_pc,         \* "input" before the line is parsed, "parsed" after
    p_events      \* what parse_log_file returns for a file of that line

run_vars == <<path_kind, dir, deleted, pc, log_files, idx, events, stdout,
              stderr, exit_code, run, prev_stdout>>
parse_vars == <<p_parts, p_line, p_pc, p_events>>
vars == <<run_vars, parse_vars>>

(***************************************************************************)
(* Characters and text                                                     *)
(***************************************************************************)

\* Code points of the characters that occur in entry names (Python compares
\* str values code point by code point).
ord(c) ==
    CASE c = "." -> 46
      [] c = "A" -> 65
      [] c = "a" -> 97
      [] c = "b" -> 98
      [] c = "g" -> 103
      [] c = "l" -> 108
      [] c = "o" -> 111
      [] c = "s" -> 115
      [] c = "t" -> 116
      [] c = "u" -> 117
      [] c = "x" -> 120

\* The characters \d matches, restricted to ASCII, in order of value.
DIGITS == <<"0", "1", "2", "3", "4", "5", "6", "7", "8", "9">>

IsDigit(c) == \E i \in 1..Len(DIGITS) : DIGITS[i] = c

\* The characters \s matches that can occur inside a line (line terminators
\* are removed before the match), restricted to space and tab.
IsSpace(c) == c \in {" ", "\t"}

DigitValue(c) == (CHOOSE i \in 1..Len(DIGITS) : DIGITS[i] = c) - 1

\* int(text) for a non-empty run of decimal digits.
RECURSIVE int(_)
int(text) ==
    IF Len(text) = 0 THEN 0
    ELSE 10 * int(SubSeq(text, 1, Len(text) - 1)) + DigitValue(text[Len(text)])

RECURSIVE str_lt_ci(_, _)
str_lt_ci(a, b) ==
    LET fold(c) == IF ord(c) >= 65 /\ ord(c) <= 90 THEN ord(c) + 32 ELSE ord(c)
    IN  IF Len(b) = 0 THEN FALSE
        ELSE IF Len(a) = 0 THEN TRUE
        ELSE IF fold(a[1]) # fold(b[1]) THEN fold(a[1]) < fold(b[1])
        ELSE str_lt_ci(Tail(a), Tail(b))

\* a < b for two str values: the first differing code point decides, and a
\* proper prefix is smaller.
RECURSIVE str_lt(_, _)
str_lt(a, b) ==
    IF Len(b) = 0 THEN FALSE
    ELSE IF Len(a) = 0 THEN TRUE
    ELSE IF ord(a[1]) # ord(b[1]) THEN ord(a[1]) < ord(b[1])
    ELSE str_lt(Tail(a), Tail(b))

\* A sequence given by a rule, as the list of its elements (each element is
\* computed once, when the list is built).
once(seq) == SubSeq(seq, 1, Len(seq))

\* needle in text (substring test).
contains(text, needle) ==
    \E i \in 1..(Len(text) - Len(needle) + 1) :
        SubSeq(text, i, i + Len(needle) - 1) = needle

\* text.endswith(suffix)
endswith(text, suffix) ==
    /\ Len(text) >= Len(suffix)
    /\ SubSeq(text, Len(text) - Len(suffix) + 1, Len(text)) = suffix

(***************************************************************************)
(* LINE_RE                                                                 *)
(***************************************************************************)

\* text has the literal lit at position i.
LitAt(text, i, lit) ==
    /\ i + Len(lit) - 1 <= Len(text)
    /\ SubSeq(text, i, i + Len(lit) - 1) = lit

\* End (exclusive) of the longest run from position i of characters for
\* which the class holds: a greedy one-or-more over a character class that
\* excludes the character the pattern wants next never needs to give back.
SpaceEnd(text, i) ==
    CHOOSE j \in i..(Len(text) + 1) :
        /\ \A k \in i..(j - 1) : IsSpace(text[k])
        /\ (j = Len(text) + 1 \/ ~IsSpace(text[j]))

DigitEnd(text, i) ==
    CHOOSE j \in i..(Len(text) + 1) :
        /\ \A k \in i..(j - 1) : IsDigit(text[k])
        /\ (j = Len(text) + 1 \/ ~IsDigit(text[j]))

NotCloseEnd(text, i) ==
    CHOOSE j \in i..(Len(text) + 1) :
        /\ \A k \in i..(j - 1) : text[k] # "]"
        /\ (j = Len(text) + 1 \/ text[j] = "]")

NoMatch == [matched |-> FALSE]

\* \s+\[<key>=(\d+)\] from position i: where the group's "]" is, or 0.
NumGroupEnd(text, i, open) ==
    LET s == SpaceEnd(text, i)
        d == s + Len(open)
        e == DigitEnd(text, d)
    IN  IF s > i /\ LitAt(text, s, open) /\ e > d /\ LitAt(text, e, <<"]">>)
        THEN e ELSE 0

OPEN_MONO == <<"[","m","o","n","o","_","m","s","=">>
OPEN_FRAME == <<"[","f","r","a","m","e","=">>
OPEN_TID == <<"[","t","i","d","=">>

\* LINE_RE.match(line): the named groups as text, or NoMatch.
LINE_RE(line) ==
    LET tsEnd == NotCloseEnd(line, 2)
        monoEnd == NumGroupEnd(line, tsEnd + 1, OPEN_MONO)
        frameEnd == NumGroupEnd(line, monoEnd + 1, OPEN_FRAME)
        tidEnd == NumGroupEnd(line, frameEnd + 1, OPEN_TID)
        msgAt == SpaceEnd(line, tidEnd + 1)
    IN  IF ~LitAt(line, 1, <<"[">>) THEN NoMatch
        ELSE IF ~(tsEnd > 2 /\ LitAt(line, tsEnd, <<"]">>)) THEN NoMatch
        ELSE IF monoEnd = 0 THEN NoMatch
        ELSE IF frameEnd = 0 THEN NoMatch
        ELSE IF tidEnd = 0 THEN NoMatch
        ELSE IF ~(msgAt > tidEnd + 1) THEN NoMatch
        ELSE [matched |-> TRUE,
              ts |-> SubSeq(line, 2, tsEnd - 1),
              mono |-> SubSeq(line, SpaceEnd(line, tsEnd + 1) + Len(OPEN_MONO),
                              monoEnd - 1),
              frame |-> SubSeq(line, SpaceEnd(line, monoEnd + 1) + Len(OPEN_FRAME),
                               frameEnd - 1),
              tid |-> SubSeq(line, SpaceEnd(line, frameEnd + 1) + Len(OPEN_TID),
                             tidEnd - 1),
              msg |-> SubSeq(line, msgAt, Len(line))]

(***************************************************************************)
(* parse_log_file                                                          *)
(***************************************************************************)

\* The dict appended for a matching line.
event_record_swapped(name, match) ==
    [file |-> name,
     ts |-> match.ts,
     mono_ms |-> int(match.mono),
     frame |-> int(match.tid),
     tid |-> int(match.frame),
     msg |-> match.msg]

RECURSIVE rstrip(_)
rstrip(text) ==
    IF Len(text) > 0 /\ IsSpace(text[Len(text)])
    THEN rstrip(SubSeq(text, 1, Len(text) - 1))
    ELSE text

event_record_strip(name, match) ==
    [file |-> name,
     ts |-> match.ts,
     mono_ms |-> int(match.mono),
     frame |-> int(match.frame),
     tid |-> int(match.tid),
     msg |-> rstrip(match.msg)]

event_record(name, match) ==
    [file |-> name,
     ts |-> match.ts,
     mono_ms |-> int(match.mono),
     frame |-> int(match.frame),
     tid |-> int(match.tid),
     msg |-> match.msg]

(***************************************************************************)
(* summarize                                                               *)
(***************************************************************************)

KEYWORD_ANOMALY ==
    <<"a","n","o","m","a","l","y","_","d","e","t","e","c","t","o","r">>
KEYWORD_STALL == <<"s","t","a","l","l","_","w","a","r","n","i","n","g">>
KEYWORD_MEMORY ==
    <<"m","e","m","o","r","y","_","g","r","o","w","t","h","_","w","a","r","n",
      "i","n","g">>

\* The argument of by_frame.most_common(...)
TOP_FRAMES == 10
\* The length of the slice anomalies[-50:]
ANOMALY_TAIL == 50

\* collections.Counter after  c[key] += 1  for keys[1], keys[2], ...: the
\* sequence of its <<key, count>> items, a key's item where the key was
\* first added (a dict keeps insertion order).
counter_of(keys) ==
    LET first == SelectSeq([i \in 1..Len(keys) |-> i],
                           LAMBDA i : \A j \in 1..(i - 1) : keys[j] # keys[i])
    IN  once([r \in 1..Len(first) |->
                <<keys[first[r]],
                  Cardinality({j \in 1..Len(keys) : keys[j] = keys[first[r]]})>>])

\* sorted(items, key=count, reverse=True): a stable sort, so an item stands
\* after the items of greater count and after the items of equal count that
\* stood before it.
sorted_by_count_unstable(c) ==
    LET place == once([i \in 1..Len(c) |->
                    Cardinality({j \in 1..Len(c) : c[j][2] > c[i][2]})
                    + Cardinality({j \in (i + 1)..Len(c) : c[j][2] = c[i][2]}) + 1])
    IN  once([p \in 1..Len(c) |-> c[CHOOSE i \in 1..Len(c) : place[i] = p]])

sorted_by_count(c) ==
    LET place == once([i \in 1..Len(c) |->
                    Cardinality({j \in 1..Len(c) : c[j][2] > c[i][2]})
                    + Cardinality({j \in 1..(i - 1) : c[j][2] = c[i][2]}) + 1])
    IN  once([p \in 1..Len(c) |-> c[CHOOSE i \in 1..Len(c) : place[i] = p]])

\* Counter.most_common()
most_common(c) == sorted_by_count(c)

\* Counter.most_common(n): heapq.nlargest(n, items, key=count), which is
\* sorted(items, key=count, reverse=True)[:n].
most_common_n(c, n) ==
    LET s == most_common(c) IN SubSeq(s, 1, IF Len(s) < n THEN Len(s) ELSE n)

by_file(evs) == counter_of([i \in 1..Len(evs) |-> evs[i].file])
by_frame(evs) == counter_of([i \in 1..Len(evs) |-> evs[i].frame])

is_anomaly(msg) ==
    \/ contains(msg, KEYWORD_ANOMALY)
    \/ contains(msg, KEYWORD_STALL)
    \/ contains(msg, KEYWORD_MEMORY)

anomalies(evs) == SelectSeq(evs, LAMBDA e : is_anomaly(e.msg))

\* seq[-n:]
first_n(seq, n) == SubSeq(seq, 1, IF Len(seq) < n THEN Len(seq) ELSE n)

last_n(seq, n) ==
    IF Len(seq) <= n THEN seq ELSE SubSeq(seq, Len(seq) - n + 1, Len(seq))

\* The lines summarize(events) prints, in order.
summarize(evs) ==
    LET files == most_common(by_file(evs))
        frames == most_common_n(by_frame(evs), TOP_FRAMES)
        shown == last_n(anomalies(evs), ANOMALY_TAIL)
    IN  <<[kind |-> "total_events", count |-> Len(evs)]>>
        \o <<[kind |-> "header", text |-> "events_by_component_log:"]>>
        \o [i \in 1..Len(files) |->
               [kind |-> "source", name |-> files[i][1], count |-> files[i][2]]]
        \o <<[kind |-> "header", text |-> "top_frames_by_event_count:"]>>
        \o [i \in 1..Len(frames) |->
               [kind |-> "frame", frame |-> frames[i][1], count |-> frames[i][2]]]
        \o <<[kind |-> "header", text |-> "anomaly_events:"]>>
        \o (IF Len(anomalies(evs)) = 0
            THEN <<[kind |-> "none"]>>
            ELSE [i \in 1..Len(shown) |->
                     [kind |-> "anomaly", ts |-> shown[i].ts,
                      frame |-> shown[i].frame, file |-> shown[i].file,
                      msg |-> shown[i].msg]])

(***************************************************************************)
(* main: the merge                                                         *)
(***************************************************************************)

\* The key of events.sort: (e["mono_ms"], e["frame"], e["file"]), and the
\* order of two such tuples.
sort_key_no_frame(e) == <<e.mono_ms, 0, e.file>>

sort_key(e) == <<e.mono_ms, e.frame, e.file>>

key_lt(a, b) ==
    \/ a[1] < b[1]
    \/ a[1] = b[1] /\ a[2] < b[2]
    \/ a[1] = b[1] /\ a[2] = b[2] /\ str_lt(a[3], b[3])

\* list.sort is stable: an element stands after the elements of smaller key
\* and after the elements of equal key that stood before it.
sort_events(evs) ==
    LET k == once([i \in 1..Len(evs) |-> sort_key(evs[i])])
        place == once([i \in 1..Len(evs) |->
                    Cardinality({j \in 1..Len(evs) : key_lt(k[j], k[i])})
                    + Cardinality({j \in 1..(i - 1) :
                                     ~key_lt(k[j], k[i]) /\ ~key_lt(k[i], k[j])})
                    + 1])
    IN  [p \in 1..Len(evs) |-> evs[CHOOSE i \in 1..Len(evs) : place[i] = p]]

\* sorted(paths): paths of one directory compare as their names do.
sorted_paths(names) ==
    LET place == [i \in 1..Len(names) |->
                    Cardinality({j \in 1..Len(names) : str_lt(names[j], names[i])})
                    + Cardinality({j \in 1..(i - 1) :
                                     /\ ~str_lt(names[j], names[i])
                                     /\ ~str_lt(names[i], names[j])})
                    + 1]
    IN  [p \in 1..Len(names) |-> names[CHOOSE i \in 1..Len(names) : place[i] = p]]

\* parse_log_file(path) for a file that opens: the records of the lines that
\* match, in file order.
parse_log_file_break(name, content) ==
    LET matches == [i \in 1..Len(content) |-> LINE_RE(content[i])]
        before == {i \in 1..Len(content) : \A j \in 1..i : matches[j].matched}
    IN  [i \in 1..Cardinality(before) |-> event_record(name, matches[i])]

parse_log_file(name, content) ==
    LET matches == [i \in 1..Len(content) |-> LINE_RE(content[i])]
        matched == SelectSeq(matches, LAMBDA m : m.matched)
    IN  [i \in 1..Len(matched) |-> event_record(name, matched[i])]

(***************************************************************************)
(* The trace session directory                                             *)
(***************************************************************************)

\* str(n) for n >= 0.
RECURSIVE str(_)
str(n) == IF n < 10 THEN <<DIGITS[n + 1]>> ELSE str(n \div 10) \o <<DIGITS[(n % 10) + 1]>>

\* Most lines in the files of a directory that are written line by line.
MaxLines == 2
\* Lines of the generated long file, and the number of frames it cycles
\* through: more than ANOMALY_TAIL anomalies and more than TOP_FRAMES frames.
BurstLen == 52
FrameCycle == 12
\* Most entries removed from the directory while the tool runs.
MaxDeleted == 1
\* Runs of the tool on one directory.
MaxRuns == 2

NAME_UPPER == <<"A",".","l","o","g">>
NAME_LOWER == <<"a",".","l","o","g">>
NAME_TEXT == <<"a",".","t","x","t">>
NAME_DIR_LOG == <<"x",".","l","o","g">>
NAME_DIR_SUB == <<"s","u","b">>
EntryNames == {NAME_UPPER, NAME_LOWER, NAME_TEXT, NAME_DIR_LOG, NAME_DIR_SUB}

LINE_HELLO ==
    <<"[","t","0","]"," ","[","m","o","n","o","_","m","s","=","1","0","0","]",
      " ","[","f","r","a","m","e","=","1","]"," ","[","t","i","d","=","5","]",
      " ","h","e","l","l","o">>
LINE_ANOMALY ==
    <<"[","t","0","]"," ","[","m","o","n","o","_","m","s","=","5","0","]",
      " ","[","f","r","a","m","e","=","2","]"," ","[","t","i","d","=","5","]",
      " ">> \o KEYWORD_ANOMALY \o <<" ","f","i","r","e","d">>
LINE_STALL ==
    <<"[","t","1","]"," "," ","[","m","o","n","o","_","m","s","=","0","5","0","]",
      " ","[","f","r","a","m","e","=","2","]","\t","[","t","i","d","=","7","]",
      " ","x","_">> \o KEYWORD_STALL
LINE_NOISE == <<"n","o","i","s","e"," ","[","t","i","d","=","5","]">>
LinePool == {LINE_HELLO, LINE_ANOMALY, LINE_STALL, LINE_NOISE}

BurstKeyword(i) ==
    CASE i % 3 = 0 -> KEYWORD_ANOMALY
      [] i % 3 = 1 -> KEYWORD_STALL
      [] i % 3 = 2 -> KEYWORD_MEMORY

\* Line i of the long file: mono_ms falls from line to line, the frames
\* cycle with every fifth line in frame 0, every message holds a keyword.
BurstLine(i) ==
    <<"[","b","]"," ">> \o OPEN_MONO \o str(60 + BurstLen - i) \o <<"]"," ">>
        \o OPEN_FRAME \o str(IF i % 5 = 0 THEN 0 ELSE i % FrameCycle)
        \o <<"]"," ">>
        \o OPEN_TID \o <<"1","]"," ">> \o BurstKeyword(i)

BurstContent == [i \in 1..BurstLen |-> BurstLine(i)]

Absent == [kind |-> "absent", content |-> <<>>]
Subdir == [kind |-> "dir", content |-> <<>>]
File(content) == [kind |-> "file", content |-> content]

WrittenContents == UNION {[1..k -> LinePool] : k \in 0..MaxLines}
LogChoices ==
    {Absent, File(BurstContent)} \cup {File(c) : c \in WrittenContents}
IsLong(entry) == entry = File(BurstContent)

\* The files written line by line hold at most MaxLines lines together; a
\* directory holds at most one long file, beside at most one written line.
WithinBounds(upper, lower) ==
    \/ ~IsLong(upper) /\ ~IsLong(lower)
          /\ Len(upper.content) + Len(lower.content) <= MaxLines
    \/ IsLong(upper) /\ ~IsLong(lower) /\ Len(lower.content) <= 1
    \/ IsLong(lower) /\ ~IsLong(upper) /\ Len(upper.content) <= 1

\* What else the directory holds: a file that is no .log file, a
\* subdirectory whose name ends in .log, a subdirectory.
ExtraChoices ==
    {<<Absent, Absent, Absent>>,
     <<File(<<LINE_ANOMALY>>), Absent, Absent>>,
     <<Absent, Subdir, Absent>>,
     <<Absent, Absent, Subdir>>}

MakeDir(upper, lower, extra) ==
    [n \in EntryNames |->
        CASE n = NAME_UPPER -> upper
          [] n = NAME_LOWER -> lower
          [] n = NAME_TEXT -> extra[1]
          [] n = NAME_DIR_LOG -> extra[2]
          [] n = NAME_DIR_SUB -> extra[3]]

EmptyDir == MakeDir(Absent, Absent, <<Absent, Absent, Absent>>)

\* Other entries stand beside written files of fewer than MaxLines lines.
Crowded(upper, lower, extra) ==
    \/ extra = <<Absent, Absent, Absent>>
    \/ ~IsLong(upper) /\ ~IsLong(lower)
          /\ Len(upper.content) + Len(lower.content) < MaxLines

Directories ==
    {MakeDir(c[1], c[2], c[3]) :
        c \in {p \in LogChoices \X LogChoices \X ExtraChoices :
                  WithinBounds(p[1], p[2]) /\ Crowded(p[1], p[2], p[3])}}

\* The entry of a name now.
Entry(n) == IF n \in deleted THEN Absent ELSE dir[n]

\* trace_dir.glob("*.log"): the names the pattern matches, whatever the
\* entry is.
glob ==
    {n \in EntryNames :
        Entry(n).kind # "absent" /\ endswith(n, <<".","l","o","g">>)}

\* The orders in which the file system may yield a set of entries.
Orders(S) ==
    {o \in [1..Cardinality(S) -> S] : \A i, j \in 1..Cardinality(S) : i # j => o[i] # o[j]}

(***************************************************************************)
(* main                                                                    *)
(***************************************************************************)

NoParser ==
    /\ p_parts = [shape |-> "none"]
    /\ p_line = <<>>
    /\ p_pc = "idle"
    /\ p_events = <<>>

Init ==
    /\ path_kind \in {"missing", "file", "dir"}
    /\ dir \in (IF path_kind = "dir" THEN Directories ELSE {EmptyDir})
    /\ deleted = {}
    /\ pc = "start"
    /\ log_files = <<>>
    /\ idx = 0
    /\ events = <<>>
    /\ stdout = <<>>
    /\ stderr = <<>>
    /\ exit_code = -1
    /\ run = 1
    /\ prev_stdout = <<>>
    /\ NoParser

\* print(..., file=sys.stderr); return 2
ExitWithError(text) ==
    /\ stderr' = Append(stderr, [kind |-> "error", text |-> text])
    /\ exit_code' = 2
    /\ pc' = "exited"

\* An exception nothing catches: the traceback goes to standard error and the
\* interpreter exits with status 1.
Crash(error) ==
    /\ stderr' = Append(stderr, [kind |-> "traceback", text |-> error])
    /\ exit_code' = 1
    /\ pc' = "exited"

\* if not trace_dir.exists() or not trace_dir.is_dir(): ...
main_validate ==
    /\ pc = "start"
    /\ IF path_kind # "dir"
       THEN ExitWithError("trace_dir not found")
       ELSE pc' = "glob" /\ UNCHANGED <<stderr, exit_code>>
    /\ UNCHANGED <<path_kind, dir, deleted, log_files, idx, events, stdout,
                   run, prev_stdout, parse_vars>>

\* log_files = sorted(trace_dir.glob("*.log")); if not log_files: ...;
\* events = []
main_glob ==
    /\ pc = "glob"
    /\ \E order \in Orders(glob) :
          /\ log_files' = sorted_paths(order)
          /\ IF Len(order) = 0
             THEN ExitWithError("no .log files found in") /\ UNCHANGED idx
             ELSE pc' = "ingest" /\ idx' = 1 /\ UNCHANGED <<stderr, exit_code>>
    /\ UNCHANGED <<path_kind, dir, deleted, events, stdout, run, prev_stdout,
                   parse_vars>>

\* One iteration of  for file_path in log_files:
\*                       events.extend(parse_log_file(file_path))
main_ingest_partial_report ==
    /\ pc = "ingest"
    /\ idx <= Len(log_files)
    /\ LET name == log_files[idx]
       IN  IF Entry(name).kind # "file"
           THEN /\ Crash("OSError")
                /\ stdout' = stdout \o summarize(sort_events(events))
                /\ UNCHANGED <<idx, events>>
           ELSE /\ events' = events \o parse_log_file(name, Entry(name).content)
                /\ idx' = idx + 1
                /\ UNCHANGED <<pc, stderr, exit_code, stdout>>
    /\ UNCHANGED <<path_kind, dir, deleted, log_files, run, prev_stdout,
                   parse_vars>>

main_ingest ==
    /\ pc = "ingest"
    /\ idx <= Len(log_files)
    /\ LET name == log_files[idx]
       IN  CASE Entry(name).kind = "absent" ->
                  Crash("FileNotFoundError") /\ UNCHANGED <<idx, events>>
             [] Entry(name).kind = "dir" ->
                  Crash("IsADirectoryError") /\ UNCHANGED <<idx, events>>
             [] Entry(name).kind = "file" ->
                  /\ events' = events \o parse_log_file(name, Entry(name).content)
                  /\ idx' = idx + 1
                  /\ UNCHANGED <<pc, stderr, exit_code>>
    /\ UNCHANGED <<path_kind, dir, deleted, log_files, stdout, run, prev_stdout,
                   parse_vars>>

\* events.sort(key=lambda e: (e["mono_ms"], e["frame"], e["file"]))
main_sort ==
    /\ pc = "ingest"
    /\ idx > Len(log_files)
    /\ events' = sort_events(events)
    /\ pc' = "summarize"
    /\ UNCHANGED <<path_kind, dir, deleted, log_files, idx, stdout, stderr,
                   exit_code, run, prev_stdout, parse_vars>>

\* summarize(events)
main_summarize ==
    /\ pc = "summarize"
    /\ stdout' = stdout \o summarize(events)
    /\ pc' = "return"
    /\ UNCHANGED <<path_kind, dir, deleted, log_files, idx, events, stderr,
                   exit_code, run, prev_stdout, parse_vars>>

\* return 0, raised as SystemExit(0)
main_return ==
    /\ pc = "return"
    /\ exit_code' = 0
    /\ pc' = "exited"
    /\ UNCHANGED <<path_kind, dir, deleted, log_files, idx, events, stdout,
                   stderr, prev_stdout, run, parse_vars>>

\* The environment removes a file of the directory while the tool runs.
delete_file ==
    /\ pc \in {"glob", "ingest"}
    /\ Cardinality(deleted) < MaxDeleted
    /\ \E n \in EntryNames :
          /\ Entry(n).kind = "file"
          /\ deleted' = deleted \cup {n}
    /\ UNCHANGED <<path_kind, dir, pc, log_files, idx, events, stdout, stderr,
                   exit_code, run, prev_stdout, parse_vars>>

\* The tool is started again on the directory as it is now.
run_again ==
    /\ pc = "exited"
    /\ run < MaxRuns
    /\ run' = run + 1
    /\ prev_stdout' = stdout
    /\ pc' = "start"
    /\ log_files' = <<>>
    /\ idx' = 0
    /\ events' = <<>>
    /\ stdout' = <<>>
    /\ stderr' = <<>>
    /\ exit_code' = -1
    /\ UNCHANGED <<path_kind, dir, deleted, parse_vars>>

Next ==
    \/ main_validate
    \/ main_glob
    \/ main_ingest
    \/ main_sort
    \/ main_summarize
    \/ main_return
    \/ delete_file
    \/ run_again

Spec == Init /\ [][Next]_vars

(***************************************************************************)
(* Vocabulary of the properties                                            *)
(***************************************************************************)

\* a <= b as plain text: equal, or a is a proper prefix of b, or the first
\* character in which they differ has the smaller code point in a.
PlainTextLeq(a, b) ==
    \/ a = b
    \/ \E k \in 1..(Len(b)) :
          /\ \A j \in 1..(k - 1) : j <= Len(a) /\ a[j] = b[j]
          /\ (k = Len(a) + 1 \/ (k <= Len(a) /\ ord(a[k]) < ord(b[k])))

\* (a.mono_ms, a.frame, a.file) <= (b.mono_ms, b.frame, b.file)
TripleLeq(a, b) ==
    \/ a.mono_ms < b.mono_ms
    \/ a.mono_ms = b.mono_ms /\ a.frame < b.frame
    \/ a.mono_ms = b.mono_ms /\ a.frame = b.frame /\ PlainTextLeq(a.file, b.file)

SameTriple(a, b) ==
    a.mono_ms = b.mono_ms /\ a.frame = b.frame /\ a.file = b.file

\* events is the merged sequence: summarize is about to get it, or got it.
Handed == pc \in {"summarize", "return"} \/ (pc = "exited" /\ exit_code = 0)

\* The report is on standard output.
Reported == stdout # <<>>

Printed(kind) == SelectSeq(stdout, LAMBDA l : l.kind = kind)

RECURSIVE SumOfCounts(_)
SumOfCounts(lines) ==
    IF lines = <<>> THEN 0 ELSE Head(lines).count + SumOfCounts(Tail(lines))

\* The lines of a file that match the line grammar.
MatchingLines(content) == {i \in 1..Len(content) : LINE_RE(content[i]).matched}

Names(files) == {files[i] : i \in 1..Len(files)}

HasKeyword(msg) ==
    \E w \in {KEYWORD_ANOMALY, KEYWORD_STALL, KEYWORD_MEMORY} : contains(msg, w)

\* The records of the merged sequence that hold a keyword, in merge order.
WithKeyword == SelectSeq(events, LAMBDA e : HasKeyword(e.msg))

Min(a, b) == IF a < b THEN a ELSE b

\* Keys of a count: how often a key occurs in the merged sequence, where it
\* occurs first, and the order of the count lists.
Occurrences(keys, k) == Cardinality({i \in 1..Len(keys) : keys[i] = k})
FirstSeen(keys, k) == CHOOSE i \in 1..Len(keys) :
                          keys[i] = k /\ \A j \in 1..(i - 1) : keys[j] # k
RankedBefore(keys, a, b) ==
    \/ Occurrences(keys, a) > Occurrences(keys, b)
    \/ /\ Occurrences(keys, a) = Occurrences(keys, b)
       /\ FirstSeen(keys, a) < FirstSeen(keys, b)

FileKeys == once([i \in 1..Len(events) |-> events[i].file])
FrameKeys == once([i \in 1..Len(events) |-> events[i].frame])

\* A printed count list <<key, count>>... is the first n entries of the
\* ranking of the keys (all of them when there are fewer).
IsRanking(list, keys, n) ==
    LET all == {keys[i] : i \in 1..Len(keys)}
        listed == {list[i][1] : i \in 1..Len(list)}
    IN  /\ Len(list) = Min(n, Cardinality(all))
        /\ listed \subseteq all
        /\ \A i \in 1..Len(list) : list[i][2] = Occurrences(keys, list[i][1])
        /\ \A i, j \in 1..Len(list) :
              i < j => RankedBefore(keys, list[i][1], list[j][1])
        /\ \A k \in all \ listed : \A l \in listed : RankedBefore(keys, l, k)

PrintedSources ==
    LET lines == Printed("source")
    IN  [i \in 1..Len(lines) |-> <<lines[i].name, lines[i].count>>]
PrintedFrames ==
    LET lines == Printed("frame")
    IN  [i \in 1..Len(lines) |-> <<lines[i].frame, lines[i].count>>]

(***************************************************************************)
(* Properties of the run                                                   *)
(***************************************************************************)

\* C1: the merged sequence handed to summarize is ascending by
\* (mono_ms, frame, file), the file names compared as plain text; records
\* equal in all three stand in the order of their file's lines, whatever
\* their timestamp, thread id and message are.
C1_MergedSorted ==
    Handed =>
        /\ \A i \in 1..(Len(events) - 1) : TripleLeq(events[i], events[i + 1])
        /\ \A i \in 1..Len(log_files) :
              LET parsed == parse_log_file(log_files[i], dir[log_files[i]].content)
                  merged == SelectSeq(events, LAMBDA x : x.file = log_files[i])
                  tied == {parsed[j] : j \in
                             {j \in 1..Len(parsed) :
                                \E k \in 1..Len(parsed) :
                                   k # j /\ SameTriple(parsed[j], parsed[k])}}
              IN  /\ Len(merged) = Len(parsed)
                  /\ \A e \in tied :
                        SelectSeq(merged, LAMBDA x : SameTriple(x, e))
                          = SelectSeq(parsed, LAMBDA x : SameTriple(x, e))

\* Two records of different files, equal in mono_ms and frame and unlike in
\* timestamp, are adjacent in the merged sequence.
C1_Witness ==
    /\ Handed
    /\ \E i \in 1..(Len(events) - 1) :
          /\ events[i].mono_ms = events[i + 1].mono_ms
          /\ events[i].frame = events[i + 1].frame
          /\ events[i].file # events[i + 1].file
          /\ events[i].ts # events[i + 1].ts

\* C2: in a successful run the printed total is the sum of the printed
\* per-source counts and the number of lines of the ingested files that
\* match the line grammar.
C2_TotalIsMatchingLines ==
    exit_code = 0 =>
        LET totals == Printed("total_events")
            sources == Printed("source")
        IN  /\ Len(totals) = 1
            /\ totals[1].count = SumOfCounts(sources)
            /\ \A i \in 1..Len(sources) :
                  /\ sources[i].name \in Names(log_files)
                  /\ sources[i].count =
                        Cardinality(MatchingLines(dir[sources[i].name].content))
            /\ \A n \in Names(log_files) :
                  MatchingLines(dir[n].content) # {} =>
                      \E i \in 1..Len(sources) : sources[i].name = n

\* A successful run over a file with a line that does not match followed
\* by one that does.
C2_Witness ==
    /\ exit_code = 0
    /\ \E n \in Names(log_files) :
          /\ Len(dir[n].content) = 2
          /\ MatchingLines(dir[n].content) = {2}
    /\ Printed("total_events")[1].count >= 1

\* C3: the anomaly section lists the last ANOMALY_TAIL (or all, if fewer)
\* of the records of the merged sequence that hold a keyword, in merge
\* order, and the line (none) is printed exactly when no record holds one.
C3_AnomalyTail ==
    Reported =>
        LET with == WithKeyword
            shown == Printed("anomaly")
        IN  /\ Len(shown) = Min(Len(with), ANOMALY_TAIL)
            /\ \A j \in 1..Len(shown) :
                  LET e == with[Len(with) - Len(shown) + j]
                  IN  shown[j] = [kind |-> "anomaly", ts |-> e.ts,
                                  frame |-> e.frame, file |-> e.file,
                                  msg |-> e.msg]
            /\ Len(Printed("none")) = (IF Len(with) = 0 THEN 1 ELSE 0)

\* More records hold a keyword than the section lists, and one does not.
C3_Witness ==
    /\ Reported
    /\ Len(WithKeyword) > ANOMALY_TAIL
    /\ Len(WithKeyword) < Len(events)

\* C4: the per-source list and the per-frame list are in descending order of
\* count, equal counts in the order in which the keys first occur in the
\* merged sequence; the per-source list has every file with a record, the
\* per-frame list the first TOP_FRAMES entries of that order.
C4_CountLists ==
    Reported =>
        /\ IsRanking(PrintedSources, FileKeys, Len(events))
        /\ IsRanking(PrintedFrames, FrameKeys, TOP_FRAMES)

\* More than TOP_FRAMES frames, two sources, and the source printed first
\* is not the one that occurs first.
C4_Witness ==
    /\ Reported
    /\ Cardinality({events[i].frame : i \in 1..Len(events)}) > TOP_FRAMES
    /\ Len(PrintedSources) = 2
    /\ PrintedSources[1][1] # events[1].file

\* C5: a path that does not exist or is no directory, or a directory with
\* no .log file, ends the run with exit code 2, an error on standard error
\* and nothing on standard output; exit code 0 only with the full report.
C5_ValidationErrors ==
    /\ (/\ pc = "exited"
        /\ deleted = {}
        /\ \/ path_kind # "dir"
           \/ ~\E n \in EntryNames :
                  dir[n].kind = "file" /\ endswith(n, <<".","l","o","g">>))
           => /\ exit_code = 2
              /\ \E i \in 1..Len(stderr) : stderr[i].kind = "error"
              /\ stdout = <<>>
    /\ exit_code = 0 => stdout = summarize(events)

\* C8: the files ingested are the entries of the directory that are files
\* whose name ends in .log, each once and in ascending name order; a
\* subdirectory is never opened and changes nothing in the run.
C8_OnlyLogFilesIngested ==
    (pc \notin {"start", "glob"} /\ exit_code # 2 /\ deleted = {}) =>
        /\ \A i \in 1..(Len(log_files) - 1) :
              log_files[i] # log_files[i + 1]
                  /\ PlainTextLeq(log_files[i], log_files[i + 1])
        /\ Names(log_files) =
              {n \in EntryNames :
                  dir[n].kind = "file" /\ endswith(n, <<".","l","o","g">>)}
        /\ exit_code # 1

\* C9: a second run on the unmodified directory prints what the first run
\* printed, in whatever order the file system yields the entries.
C9_SameOutputTwice ==
    (run >= 2 /\ pc = "exited" /\ deleted = {}) => stdout = prev_stdout

\* A second run has reported on two files with records equal in mono_ms
\* and frame.
C9_Witness ==
    /\ run >= 2
    /\ pc = "exited"
    /\ deleted = {}
    /\ Reported
    /\ Len(log_files) = 2
    /\ \E i \in 1..(Len(events) - 1) :
          /\ events[i].mono_ms = events[i + 1].mono_ms
          /\ events[i].frame = events[i + 1].frame
          /\ events[i].file # events[i + 1].file

\* C10: nothing is on standard output before every enumerated file is
\* ingested and the merged sequence sorted; a run in which a file fails to
\* open ends in failure with standard output empty.
C10_NoPartialReport ==
    /\ Reported =>
          /\ pc \in {"return", "exited"}
          /\ idx = Len(log_files) + 1
          /\ \A i \in 1..(Len(events) - 1) : TripleLeq(events[i], events[i + 1])
          /\ \A n \in Names(log_files) :
                Cardinality({i \in 1..Len(events) : events[i].file = n})
                    = Cardinality(MatchingLines(dir[n].content))
    /\ exit_code = 1 => (stdout = <<>> /\ pc = "exited")
    /\ (pc = "exited" /\ idx >= 1 /\ idx <= Len(log_files)) => exit_code = 1

\* A file was ingested, and the next one, removed after the enumeration,
\* failed to open.
C10_Witness ==
    /\ exit_code = 1
    /\ idx = 2
    /\ events # <<>>
    /\ log_files[idx] \in deleted
    /\ stdout = <<>>

(***************************************************************************)
(* The line parser applied to one line                                     *)
(***************************************************************************)

\* Longest digit string the parser is tried on.
MaxDigits == 2

DigitStrings == UNION {[1..k -> {"0", "7"}] : k \in 1..MaxDigits}

TsPool == {<<"t","0">>, <<"t"," ","0">>, <<"a","]","b">>, <<>>}
GapPool == {<<>>, <<" ">>, <<" "," ">>, <<"\t">>}
\* The three gaps between the bracket groups: at most one is not one space.
GapTriples ==
    {g \in GapPool \X GapPool \X GapPool :
        Cardinality({i \in 1..3 : g[i] # <<" ">>}) <= 1}
MonoPool == DigitStrings \cup {<<>>, <<"-","1">>, <<"7","x">>}
FramePool == {<<"3">>, <<"0","3">>, <<>>}
TidPool == {<<"5">>, <<"0","0">>}
MsgPool == {<<>>, <<"x">>, <<" ","x">>, <<"x"," ">>, <<"[","z","]">>}
BrokenShapes == {"no_ts", "no_mono", "no_frame", "no_tid", "swapped", "indented"}

ParserInputs ==
    {[shape |-> "full", ts |-> t, gap1 |-> g[1], mono |-> m, gap2 |-> g[2],
      frame |-> f, gap3 |-> g[3], tid |-> d, gap4 |-> h, msg |-> x] :
        t \in TsPool, g \in GapTriples, m \in MonoPool, f \in FramePool,
        d \in TidPool, h \in GapPool, x \in MsgPool}
    \cup
    {[shape |-> s, ts |-> t, gap1 |-> <<" ">>, mono |-> m, gap2 |-> <<" ">>,
      frame |-> <<"3">>, gap3 |-> <<" ">>, tid |-> <<"5">>, gap4 |-> <<" ">>,
      msg |-> x] :
        s \in BrokenShapes, t \in TsPool, m \in MonoPool, x \in MsgPool}

\* The bracket groups of an input and the line they make.
TsGroup(p) == <<"[">> \o p.ts \o <<"]">>
MonoGroup(p) == OPEN_MONO \o p.mono \o <<"]">>
FrameGroup(p) == OPEN_FRAME \o p.frame \o <<"]">>
TidGroup(p) == OPEN_TID \o p.tid \o <<"]">>

\* The bracketed prefix of a line of the full shape, up to the "]" of tid.
Prefix(p) ==
    TsGroup(p) \o p.gap1 \o MonoGroup(p) \o p.gap2 \o FrameGroup(p)
        \o p.gap3 \o TidGroup(p)

Compose(p) ==
    LET tail == p.gap4 \o p.msg
    IN  CASE p.shape = "full" -> Prefix(p) \o tail
          [] p.shape = "no_ts" ->
                MonoGroup(p) \o p.gap2 \o FrameGroup(p) \o p.gap3
                    \o TidGroup(p) \o tail
          [] p.shape = "no_mono" ->
                TsGroup(p) \o p.gap1 \o FrameGroup(p) \o p.gap3
                    \o TidGroup(p) \o tail
          [] p.shape = "no_frame" ->
                TsGroup(p) \o p.gap1 \o MonoGroup(p) \o p.gap3
                    \o TidGroup(p) \o tail
          [] p.shape = "no_tid" ->
                TsGroup(p) \o p.gap1 \o MonoGroup(p) \o p.gap2
                    \o FrameGroup(p) \o tail
          [] p.shape = "swapped" ->
                TsGroup(p) \o p.gap1 \o FrameGroup(p) \o p.gap2
                    \o MonoGroup(p) \o p.gap3 \o TidGroup(p) \o tail
          [] p.shape = "indented" -> <<" ">> \o Prefix(p) \o tail

\* The file name given to the parser when it is applied to a single line.
PARSER_FILE == <<"a",".","l","o","g">>

IdleRun ==
    /\ path_kind = "missing"
    /\ dir = <<>>
    /\ deleted = {}
    /\ pc = "idle"
    /\ log_files = <<>>
    /\ idx = 0
    /\ events = <<>>
    /\ stdout = <<>>
    /\ stderr = <<>>
    /\ exit_code = -1
    /\ run = 0
    /\ prev_stdout = <<>>

ParserInit ==
    /\ p_parts \in ParserInputs
    /\ p_line = Compose(p_parts)
    /\ p_pc = "input"
    /\ p_events = <<>>
    /\ IdleRun

\* parse_log_file on a file that holds the line.
ParseOneLine ==
    /\ p_pc = "input"
    /\ p_events' = parse_log_file(PARSER_FILE, <<p_line>>)
    /\ p_pc' = "parsed"
    /\ UNCHANGED <<p_parts, p_line, run_vars>>

ParserNext == ParseOneLine

ParserSpec == ParserInit /\ [][ParserNext]_vars

(***************************************************************************)
(* Properties of the line parser                                           *)
(***************************************************************************)

Parsed == p_pc = "parsed"
Matched == Parsed /\ p_events # <<>>

IsDigitString(text) == Len(text) >= 1 /\ \A i \in 1..Len(text) : IsDigit(text[i])
IsGap(text) == Len(text) >= 1 /\ \A i \in 1..Len(text) : text[i] \in {" ", "\t"}

\* The input is a line of the form
\* [<ts>] [mono_ms=<digits>] [frame=<digits>] [tid=<digits>] <message>.
WellFormed(p) ==
    /\ p.shape = "full"
    /\ Len(p.ts) >= 1 /\ \A i \in 1..Len(p.ts) : p.ts[i] # "]"
    /\ IsDigitString(p.mono) /\ IsDigitString(p.frame) /\ IsDigitString(p.tid)
    /\ IsGap(p.gap1) /\ IsGap(p.gap2) /\ IsGap(p.gap3) /\ IsGap(p.gap4)

\* The number a digit string denotes.
RECURSIVE Decimal(_)
Decimal(text) ==
    IF text = <<>> THEN 0
    ELSE DigitValue(Head(text)) * 10 ^ (Len(text) - 1) + Decimal(Tail(text))

\* A digit string with no superfluous leading zero.
Canonical(text) == Len(text) = 1 \/ text[1] # "0"

\* [<ts>] [mono_ms=<mono_ms>] [frame=<frame>] [tid=<tid>] of a record.
Reserialize(e) ==
    <<"[">> \o e.ts \o <<"]", " ">> \o OPEN_MONO \o str(e.mono_ms)
        \o <<"]", " ">> \o OPEN_FRAME \o str(e.frame)
        \o <<"]", " ">> \o OPEN_TID \o str(e.tid) \o <<"]">>

\* C6 as stated: re-serializing the four structured fields of the record of
\* a matching line reproduces the bracketed prefix of the line exactly.
C6_RoundTrip ==
    (Matched /\ p_parts.shape = "full") =>
        Reserialize(p_events[1]) = Prefix(p_parts)

\* C6, amended: the record of a matching line holds the timestamp text
\* unchanged and the numbers the three digit strings denote; re-serializing
\* them reproduces the bracketed prefix exactly if and only if no digit
\* string has a superfluous leading zero and the groups are one space apart.
C6_RoundTripCanonical ==
    Matched =>
        LET e == p_events[1]
            p == p_parts
        IN  /\ p.shape = "full"
            /\ e.ts = p.ts
            /\ e.mono_ms = Decimal(p.mono)
            /\ e.frame = Decimal(p.frame)
            /\ e.tid = Decimal(p.tid)
            /\ (Reserialize(e) = Prefix(p)) <=>
                  /\ Canonical(p.mono) /\ Canonical(p.frame) /\ Canonical(p.tid)
                  /\ p.gap1 = <<" ">> /\ p.gap2 = <<" ">> /\ p.gap3 = <<" ">>

\* A line with a two-digit mono_ms is parsed and its prefix reproduced.
C6_Witness ==
    /\ Matched
    /\ Len(p_parts.mono) = 2
    /\ p_parts.ts = <<"t", " ", "0">>
    /\ Reserialize(p_events[1]) = Prefix(p_parts)

\* C7 as stated: every line of the form yields a record, and the record's
\* message is the remainder of the line after the whitespace.
C7_MessageIsRemainder ==
    (Parsed /\ WellFormed(p_parts)) =>
        /\ Len(p_events) = 1
        /\ p_events[1].msg = p_parts.msg

\* C7, amended: every line of the form, with at least one whitespace
\* character between the groups and after the tid group, yields a record;
\* its message is the rest of the line after the whole run of whitespace
\* that follows the tid group.  A line that ends with the tid group, or
\* goes on without whitespace, yields none.
C7_MessageAfterWhitespace ==
    /\ (Parsed /\ WellFormed(p_parts)) =>
          /\ Len(p_events) = 1
          /\ \E k \in 0..Len(p_parts.msg) :
                /\ \A i \in 1..k : IsSpace(p_parts.msg[i])
                /\ (k = Len(p_parts.msg) \/ ~IsSpace(p_parts.msg[k + 1]))
                /\ p_events[1].msg = SubSeq(p_parts.msg, k + 1, Len(p_parts.msg))
    /\ (/\ Parsed
        /\ p_parts.shape = "full"
        /\ p_parts.gap4 = <<>>
        /\ (p_parts.msg = <<>> \/ ~IsSpace(p_parts.msg[1])))
          => p_events = <<>>

\* A line whose groups are separated by tabs and spaces and whose message is
\* empty yields a record.
C7_Witness ==
    /\ Parsed
    /\ WellFormed(p_parts)
    /\ p_parts.msg = <<>>
    /\ p_parts.gap4 = <<"\t">>
    /\ p_parts.gap1 = <<" ", " ">>
    /\ Len(p_events) = 1

====
